---------------------------- MODULE Spec2Model ----------------------------
(***************************************************************************)
(* A model of the two scripts of the repository:                           *)
(*                                                                         *)
(*   gemini_api_bridge.py  the text flow: resolve the API key and the      *)
(*                         message, call_gemini_api, print the result      *)
(*   pixelart.py           the image flow: one POST, the base64 extractor, *)
(*                         the decode and the write of ./assets/output1.png*)
(*                                                                         *)
(* Python values are tagged records [t, v]; a Python str is a sequence of  *)
(* characters, a list a sequence of values, a dict a sequence of           *)
(* <<key, value>> members in insertion order.  The result of evaluating a  *)
(* Python expression is a record [exc, val]: exc = "" when it returned     *)
(* val, otherwise the name of the exception it raised.                     *)
(***************************************************************************)
EXTENDS Integers, Sequences, FiniteSets, TLC

VARIABLES
    pc,             \* the position of the running script
    environ,        \* os.environ: a function from the variables set to strings
    argv,           \* sys.argv
    api_key,        \* the API key the script resolved
    message,        \* gemini_api_bridge.py: the message it resolved
    exchange,       \* what the HTTP exchange of urlopen(req) did
    requests,       \* the number of urlopen(req) calls made
    response,       \* gemini_api_bridge.py: what call_gemini_api returned or raised
    response_data,  \* pixelart.py: the parsed response
    base64_images,  \* pixelart.py: the extracted payload
    image_data,     \* pixelart.py: the decoded bytes
    exc,            \* pixelart.py: the exception being handled
    fs,             \* the file system: ./assets and ./assets/output1.png
    stdout,         \* the lines printed to standard output
    stderr,         \* the lines printed to standard error
    exit_code       \* the exit status, -1 while the script runs

vars == <<pc, environ, argv, api_key, message, exchange, requests, response,
          response_data, base64_images, image_data, exc, fs, stdout, stderr,
          exit_code>>

---------------------------------------------------------------------------
(* Python values *)

None == [t |-> "null", v |-> 0]

Bool(b) == [t |-> "bool", v |-> b]

Num(n) == [t |-> "num", v |-> n]

Str(s) == [t |-> "str", v |-> s]

List(a) == [t |-> "arr", v |-> a]

Dict(m) == [t |-> "obj", v |-> m]

Bytes(b) == [t |-> "bytes", v |-> b]

Ok(v) == [exc |-> "", val |-> v]

Raise(e) == [exc |-> e, val |-> None]

HasKey(m, k) == \E i \in 1..Len(m) : m[i][1] = k

Lookup(m, k) == m[CHOOSE i \in 1..Len(m) : m[i][1] = k][2]

(* d[k] = v: a new key is appended, an old one keeps its place *)
DictSet(m, k, v) ==
    IF HasKey(m, k)
    THEN [i \in 1..Len(m) |-> IF m[i][1] = k THEN <<k, v>> ELSE m[i]]
    ELSE Append(m, <<k, v>>)

(* s is a contiguous part of u *)
IsSubstring(s, u) ==
    \E i \in 0..(Len(u) - Len(s)) : SubSeq(u, i + 1, i + Len(s)) = s

(* Python's truth value of x: `not x` is ~Truthy(x) *)
Truthy(x) ==
    CASE x.t = "null" -> FALSE
      [] x.t = "bool" -> x.v
      [] x.t = "num"  -> x.v # 0
      [] OTHER        -> Len(x.v) > 0

(* `k in x` for a str k *)
PyIn(k, x) ==
    CASE x.t = "obj" -> Ok(HasKey(x.v, k))
      [] x.t = "arr" -> Ok(\E i \in 1..Len(x.v) : x.v[i] = Str(k))
      [] x.t = "str" -> Ok(IsSubstring(k, x.v))
      [] OTHER       -> Raise("TypeError")

(* `x[k]` for a str k *)
PyGetKey(x, k) ==
    CASE x.t = "obj" -> IF HasKey(x.v, k) THEN Ok(Lookup(x.v, k)) ELSE Raise("KeyError")
      [] OTHER       -> Raise("TypeError")

(* `x[0]` *)
PyGetFirst(x) ==
    CASE x.t = "arr" -> IF Len(x.v) > 0 THEN Ok(x.v[1]) ELSE Raise("IndexError")
      [] x.t = "str" -> IF Len(x.v) > 0 THEN Ok(Str(<<x.v[1]>>)) ELSE Raise("IndexError")
      [] x.t = "obj" -> Raise("KeyError")
      [] OTHER       -> Raise("TypeError")

(* `len(x)` *)
PyLen(x) ==
    IF x.t \in {"obj", "arr", "str"} THEN Ok(Len(x.v)) ELSE Raise("TypeError")

(* `x[k]` in place of `x.get(k, default)`: a missing key raises *)
PyGet_Subscript(x, k, default) ==
    IF x.t # "obj" THEN Raise("TypeError")
    ELSE IF HasKey(x.v, k) THEN Ok(Lookup(x.v, k))
    ELSE Raise("KeyError")

(* `x.get(k, default)` *)
PyGet(x, k, default) ==
    IF x.t = "obj"
    THEN Ok(IF HasKey(x.v, k) THEN Lookup(x.v, k) ELSE default)
    ELSE Raise("AttributeError")

---------------------------------------------------------------------------
(* json.dumps and json.loads on character sequences *)

DigitChars == <<"0", "1", "2", "3", "4", "5", "6", "7", "8", "9">>

IsDigit(c) == \E d \in 1..10 : DigitChars[d] = c

DigitVal(c) == (CHOOSE d \in 1..10 : DigitChars[d] = c) - 1

RECURSIVE NatDigits(_)
NatDigits(n) ==
    IF n < 10 THEN <<DigitChars[n + 1]>>
    ELSE NatDigits(n \div 10) \o <<DigitChars[(n % 10) + 1]>>

(* str(n) *)
IntText(n) == IF n < 0 THEN <<"-">> \o NatDigits(-n) ELSE NatDigits(n)

(* ensure_ascii: "U+E9" is the one character outside ASCII the model has *)
EscapeChar(c) ==
    CASE c = "\"" -> <<"\\", "\"">>
      [] c = "\\" -> <<"\\", "\\">>
      [] c = "U+E9"  -> <<"\\", "u", "0", "0", "e", "9">>
      [] OTHER    -> <<c>>

RECURSIVE EscapeText(_)
EscapeText(s) ==
    IF s = <<>> THEN <<>> ELSE EscapeChar(Head(s)) \o EscapeText(Tail(s))

QuoteText(s) == <<"\"">> \o EscapeText(s) \o <<"\"">>

RECURSIVE Dumps(_)
RECURSIVE DumpItems(_)
RECURSIVE DumpMembers(_)
(* The items of a list, joined by ", " *)
DumpItems(a) ==
    IF a = <<>> THEN <<>>
    ELSE Dumps(Head(a))
         \o (IF Len(a) > 1 THEN <<",", " ">> \o DumpItems(Tail(a)) ELSE <<>>)

(* The members of a dict, "key": value, joined by ", " *)
DumpMembers(m) ==
    IF m = <<>> THEN <<>>
    ELSE QuoteText(Head(m)[1]) \o <<":", " ">> \o Dumps(Head(m)[2])
         \o (IF Len(m) > 1 THEN <<",", " ">> \o DumpMembers(Tail(m)) ELSE <<>>)

(* json.dumps(x) with the default separators *)
Dumps(x) ==
    CASE x.t = "null" -> <<"n", "u", "l", "l">>
      [] x.t = "bool" -> IF x.v THEN <<"t", "r", "u", "e">>
                         ELSE <<"f", "a", "l", "s", "e">>
      [] x.t = "num"  -> IntText(x.v)
      [] x.t = "str"  -> QuoteText(x.v)
      [] x.t = "arr"  -> <<"[">> \o DumpItems(x.v) \o <<"]">>
      [] x.t = "obj"  -> <<"{">> \o DumpMembers(x.v) \o <<"}">>

(* A parse step: ok, the value read, and the position after it *)
Parsed(v, i) == [ok |-> TRUE, val |-> v, next |-> i]

ParseError == [ok |-> FALSE, val |-> None, next |-> 0]

At(s, i) == IF i <= Len(s) THEN s[i] ELSE "EOF"

RECURSIVE SkipWs(_, _)
SkipWs(s, i) == IF At(s, i) = " " THEN SkipWs(s, i + 1) ELSE i

HexChars == <<"0", "1", "2", "3", "4", "5", "6", "7", "8", "9",
              "a", "b", "c", "d", "e", "f">>

IsHex(c) == \E d \in 1..16 : HexChars[d] = c

HexVal(c) == (CHOOSE d \in 1..16 : HexChars[d] = c) - 1

(* The character of a \uXXXX escape: the model's alphabet has one above ASCII *)
CharOfCode(n) == IF n = 233 THEN "U+E9" ELSE "?"

(* The characters of a string literal from position i, after its opening quote *)
RECURSIVE ParseChars(_, _, _)
ParseChars(s, i, acc) ==
    LET c == At(s, i) IN
    CASE c = "EOF" -> ParseError
      [] c = "\"" -> Parsed(Str(acc), i + 1)
      [] c = "\\" ->
            LET e == At(s, i + 1) IN
            CASE e \in {"\"", "\\", "/"} -> ParseChars(s, i + 2, Append(acc, e))
              [] e = "u" ->
                    IF \A k \in 2..5 : IsHex(At(s, i + k))
                    THEN ParseChars(s, i + 6, Append(acc,
                            CharOfCode(4096 * HexVal(s[i + 2]) + 256 * HexVal(s[i + 3])
                                       + 16 * HexVal(s[i + 4]) + HexVal(s[i + 5]))))
                    ELSE ParseError
              [] OTHER -> ParseError
      [] OTHER -> ParseChars(s, i + 1, Append(acc, c))

RECURSIVE ParseDigits(_, _, _)
ParseDigits(s, i, acc) ==
    IF IsDigit(At(s, i)) THEN ParseDigits(s, i + 1, 10 * acc + DigitVal(s[i]))
    ELSE Parsed(Num(acc), i)

(* An integer literal: 0, or a nonzero digit and more digits *)
ParseNat(s, i) ==
    IF At(s, i) = "0" THEN Parsed(Num(0), i + 1)
    ELSE IF IsDigit(At(s, i)) THEN ParseDigits(s, i, 0)
    ELSE ParseError

IsWord(s, i, w) == i + Len(w) - 1 <= Len(s) /\ SubSeq(s, i, i + Len(w) - 1) = w

RECURSIVE ParseValue(_, _)
RECURSIVE ParseItems(_, _, _)
RECURSIVE ParseMembers(_, _, _)
(* The items of an array from position i, after "[" or "," *)
ParseItems(s, i, acc) ==
    LET item == ParseValue(s, SkipWs(s, i)) IN
    IF ~item.ok THEN ParseError
    ELSE LET j == SkipWs(s, item.next) IN
         CASE At(s, j) = "]" -> Parsed(List(Append(acc, item.val)), j + 1)
           [] At(s, j) = "," -> ParseItems(s, j + 1, Append(acc, item.val))
           [] OTHER          -> ParseError

(* The members of an object from position i, after "{" or "," *)
ParseMembers(s, i, acc) ==
    LET k == SkipWs(s, i) IN
    IF At(s, k) # "\"" THEN ParseError
    ELSE LET key == ParseChars(s, k + 1, <<>>) IN
         IF ~key.ok THEN ParseError
         ELSE LET c == SkipWs(s, key.next) IN
              IF At(s, c) # ":" THEN ParseError
              ELSE LET member == ParseValue(s, SkipWs(s, c + 1)) IN
                   IF ~member.ok THEN ParseError
                   ELSE LET j == SkipWs(s, member.next)
                            m == DictSet(acc, key.val.v, member.val)
                        IN  CASE At(s, j) = "}" -> Parsed(Dict(m), j + 1)
                              [] At(s, j) = "," -> ParseMembers(s, j + 1, m)
                              [] OTHER          -> ParseError

(* The JSON value that starts at position i *)
ParseValue(s, i) ==
    LET c == At(s, i) IN
    CASE c = "\"" -> ParseChars(s, i + 1, <<>>)
      [] c = "{"  -> IF At(s, SkipWs(s, i + 1)) = "}"
                     THEN Parsed(Dict(<<>>), SkipWs(s, i + 1) + 1)
                     ELSE ParseMembers(s, i + 1, <<>>)
      [] c = "["  -> IF At(s, SkipWs(s, i + 1)) = "]"
                     THEN Parsed(List(<<>>), SkipWs(s, i + 1) + 1)
                     ELSE ParseItems(s, i + 1, <<>>)
      [] IsWord(s, i, <<"n", "u", "l", "l">>)      -> Parsed(None, i + 4)
      [] IsWord(s, i, <<"t", "r", "u", "e">>)      -> Parsed(Bool(TRUE), i + 4)
      [] IsWord(s, i, <<"f", "a", "l", "s", "e">>) -> Parsed(Bool(FALSE), i + 5)
      [] c = "-"  -> LET n == ParseNat(s, i + 1) IN
                     IF n.ok THEN Parsed(Num(-n.val.v), n.next) ELSE ParseError
      [] OTHER    -> ParseNat(s, i)

(* json.loads(s): the value, or JSONDecodeError (also on extra data) *)
Loads(s) ==
    LET r == ParseValue(s, SkipWs(s, 1)) IN
    IF r.ok /\ SkipWs(s, r.next) = Len(s) + 1 THEN Ok(r.val)
    ELSE Raise("JSONDecodeError")

---------------------------------------------------------------------------
(* The HTTP exchange, common to the two scripts *)

MaxText == 2

TextChars == {"a", " ", "\"", "U+E9"}

(* The strings of at most n characters of alphabet *)
RECURSIVE StringsUpTo(_, _)
StringsUpTo(alphabet, n) ==
    IF n = 0 THEN {<<>>}
    ELSE LET shorter == StringsUpTo(alphabet, n - 1) IN
         shorter \cup {Append(s, c) : s \in shorter, c \in alphabet}

TextStrings == StringsUpTo(TextChars, MaxText)

(* A body the peer sent: text, bytes that are not UTF-8, or a read that fails *)
TextBody(s) == [st |-> "text", text |-> s]

UndecodableBody == [st |-> "undecodable", text |-> <<>>]

UnreadableBody == [st |-> "unreadable", text |-> <<>>]

(* resp.read().decode("utf-8") *)
ReadText(body) ==
    CASE body.st = "text"        -> Ok(Str(body.text))
      [] body.st = "undecodable" -> Raise("UnicodeDecodeError")
      [] body.st = "unreadable"  -> Raise("IncompleteRead")

(* urlopen(req) returned a response with this body *)
OkExchange(body) == [kind |-> "ok", code |-> 200, body |-> body]

(* urlopen(req) raised HTTPError *)
HTTPErrorExchange(code, body) == [kind |-> "HTTPError", code |-> code, body |-> body]

(* urlopen(req) raised URLError, or an exception that is no URLError *)
FailedExchange(e) == [kind |-> e, code |-> 0, body |-> UnreadableBody]

NoExchange == [kind |-> "none", code |-> 0, body |-> UnreadableBody]

ErrorCodes == {404, 503}

(* Bodies that are no JSON document *)
NonJsonTexts ==
    { <<>>, <<"o", "k">>, <<"{">>, <<"[", "1", ",", "]">>, <<"1", " ", "2">> }

---------------------------------------------------------------------------
(* gemini_api_bridge.py *)

K_candidates == <<"c", "a", "n", "d", "i", "d", "a", "t", "e", "s">>

K_content == <<"c", "o", "n", "t", "e", "n", "t">>

K_parts == <<"p", "a", "r", "t", "s">>

K_text == <<"t", "e", "x", "t">>

K_role == <<"r", "o", "l", "e">>

K_error == <<"e", "r", "r", "o", "r">>

(* Values of none of the types the expected structure has at its place *)
Misfits ==
    { None, Num(7), Bool(FALSE), Str(<<"a", "b">>), List(<<>>), List(<<Num(1)>>),
      Dict(<<>>), Dict(<< <<K_role, Str(<<"a">>)>> >>) }

PartValues ==
    { Dict(<< <<K_text, Str(s)>> >>) : s \in TextStrings }
    \cup { Dict(<< <<K_role, Str(<<"a">>)>>, <<K_text, Str(<<"a">>)>> >>),
           Dict(<< <<K_text, Num(5)>> >>),
           Dict(<< <<K_text, None>> >>) }
    \cup Misfits

PartsValues ==
    { List(<<p>>) : p \in PartValues }
    \cup { List(<< Dict(<< <<K_text, Str(<<"a">>)>> >>),
                   Dict(<< <<K_text, Str(<<" ">>)>> >>) >>) }
    \cup Misfits

ContentValues ==
    { Dict(<< <<K_parts, ps>> >>) : ps \in PartsValues }
    \cup { Dict(<< <<K_role, Str(<<"a">>)>>, <<K_parts, List(<<Dict(<<>>)>>)>> >>),
           Str(K_parts), List(<<Str(K_parts)>>) }
    \cup Misfits

CandidateValues ==
    { Dict(<< <<K_content, c>> >>) : c \in ContentValues }
    \cup { Str(K_content), List(<<Str(K_content)>>) }
    \cup Misfits

CandidatesValues ==
    { List(<<c>>) : c \in CandidateValues }
    \cup { List(<< Dict(<<>>),
                   Dict(<< <<K_content, Dict(<< <<K_parts,
                        List(<<Dict(<< <<K_text, Str(<<"a">>)>> >>)>>)>> >>)>> >>) >>) }
    \cup Misfits

(* The parsed responses of the text flow *)
TextResponses ==
    { Dict(<< <<K_candidates, cs>> >>) : cs \in CandidatesValues }
    \cup { Dict(<< <<K_error, Dict(<< <<K_text, Str(<<"a">>)>> >>)>> >>),
           Dict(<< <<K_error, Num(1)>>, <<K_candidates, List(<<>>)>> >>),
           Str(K_candidates), List(<<Str(K_candidates)>>), Bool(TRUE), Num(0),
           Num(-12), Str(<<>>) }
    \cup Misfits

TextExchanges ==
    { OkExchange(TextBody(Dumps(v))) : v \in TextResponses }
    \cup { OkExchange(TextBody(s)) : s \in NonJsonTexts }
    \cup { OkExchange(UndecodableBody), OkExchange(UnreadableBody) }
    \cup { HTTPErrorExchange(c, TextBody(s)) :
             c \in ErrorCodes, s \in { <<>>, <<"n", "o">>, Dumps(Dict(<< <<K_error, Num(1)>> >>)) } }
    \cup { HTTPErrorExchange(c, b) : c \in ErrorCodes, b \in {UndecodableBody, UnreadableBody} }
    \cup { FailedExchange("URLError"), FailedExchange("RemoteDisconnected") }

ErrorPrefix == <<"E", "r", "r", "o", "r", ":", " ">>

HTTPErrorPrefix == <<"H", "T", "T", "P", " ", "E", "r", "r", "o", "r", " ">>

(* str(e): the message of exception e, one symbol that names it *)
ExcText(e) == <<e>>

(* except Exception as e: return f"Error: {str(e)}" *)
ErrorResult(e) == Ok(Str(ErrorPrefix \o ExcText(e)))

(* str(response_data) in place of json.dumps(response_data): Python's own
   notation, with ' for " *)
Fallback_Str(rd) ==
    Ok(Str([i \in 1..Len(Dumps(rd)) |->
              IF Dumps(rd)[i] = "\"" THEN "'" ELSE Dumps(rd)[i]]))

(* "If we get here, something went wrong": return json.dumps(response_data) *)
Fallback(rd) == Ok(Str(Dumps(rd)))

(* "Extract text from response": what the with-block returns or raises *)
ExtractText(rd) ==
    LET has == PyIn(K_candidates, rd)
        cands == PyGetKey(rd, K_candidates)
        n == PyLen(cands.val)
        candidate == PyGetFirst(cands.val)
        hasContent == PyIn(K_content, candidate.val)
        content == PyGetKey(candidate.val, K_content)
        hasParts == PyIn(K_parts, content.val)
        parts == PyGetKey(content.val, K_parts)
        nParts == PyLen(parts.val)
        part == PyGetFirst(parts.val)
        fallback == Fallback(rd)
    IN  IF has.exc # "" THEN has
        ELSE IF ~has.val THEN fallback
        ELSE IF cands.exc # "" THEN cands
        ELSE IF n.exc # "" THEN n
        ELSE IF ~(n.val > 0) THEN fallback
        ELSE IF candidate.exc # "" THEN candidate
        ELSE IF hasContent.exc # "" THEN hasContent
        ELSE IF ~hasContent.val THEN fallback
        ELSE IF content.exc # "" THEN content
        ELSE IF hasParts.exc # "" THEN hasParts
        ELSE IF ~hasParts.val THEN fallback
        ELSE IF parts.exc # "" THEN parts
        ELSE IF nParts.exc # "" THEN nParts
        ELSE IF ~(nParts.val > 0) THEN fallback
        ELSE IF part.exc # "" THEN part
        ELSE PyGet(part.val, K_text, Str(<<>>))

(* The except HTTPError clause: an exception of the read leaves the function *)
HTTPErrorResult(x) ==
    LET error_body == ReadText(x.body) IN
    IF error_body.exc # "" THEN Raise(error_body.exc)
    ELSE Ok(Str(HTTPErrorPrefix \o IntText(x.code) \o <<":", " ">> \o error_body.val.v))

(* The try block: read, decode, parse, extract *)
TryResult(x) ==
    LET text == ReadText(x.body)
        parsed == Loads(text.val.v)
    IN  IF text.exc # "" THEN text
        ELSE IF parsed.exc # "" THEN parsed
        ELSE ExtractText(parsed.val)

(* call_gemini_api(key, msg) when the HTTP exchange is x *)
call_gemini_api(key, msg, x) ==
    IF x.kind = "ok"
    THEN IF TryResult(x).exc # "" THEN ErrorResult(TryResult(x).exc) ELSE TryResult(x)
    ELSE IF x.kind = "HTTPError" THEN HTTPErrorResult(x)
    ELSE ErrorResult(x.kind)

MaxArgs == 3

ArgStrings == { <<"k">>, <<"m", " ">> }

EnvStrings == { <<>>, <<"E">> }

EnvNames == {"GEMINI_API_KEY", "GEMINI_MESSAGE"}

(* The sequences of at most n elements of S *)
RECURSIVE SeqsUpTo(_, _)
SeqsUpTo(S, n) ==
    IF n = 0 THEN {<<>>}
    ELSE LET shorter == SeqsUpTo(S, n - 1) IN
         shorter \cup {Append(q, e) : q \in shorter, e \in S}

(* os.environ.get(name) *)
EnvGet(name) == IF name \in DOMAIN environ THEN Str(environ[name]) ELSE None

(* print(text, arg): one printed line *)
Line(text, arg) == [text |-> text, arg |-> arg]

UsageLines ==
    << "Usage: gemini_api_bridge.py <api_key> <message>",
       "Or set GEMINI_API_KEY and GEMINI_MESSAGE environment variables" >>

(* The URL, which holds the key, is one http.client accepts *)
ValidURL(key) == \A i \in 1..Len(key) : key[i] # " "

ImageIdle ==
    /\ response_data = None
    /\ base64_images = None
    /\ image_data = None
    /\ exc = ""
    /\ fs = [dir |-> FALSE, file |-> None]

BridgeInit ==
    /\ pc = "main"
    /\ environ \in UNION {[D -> EnvStrings] : D \in SUBSET EnvNames}
    /\ argv \in {<<Str(<<"p", "y">>)>> \o [i \in 1..Len(a) |-> Str(a[i])] :
                    a \in SeqsUpTo(ArgStrings, MaxArgs)}
    /\ api_key = None
    /\ message = None
    /\ exchange = NoExchange
    /\ requests = 0
    /\ response = Ok(None)
    /\ ImageIdle
    /\ stdout = <<>>
    /\ stderr = <<>>
    /\ exit_code = -1

(* `not api_key and not message` in place of `or` *)
NeedArgs_And == ~Truthy(EnvGet("GEMINI_API_KEY")) /\ ~Truthy(EnvGet("GEMINI_MESSAGE"))

(* The environment does not give both values: `not api_key or not message` *)
NeedArgs == ~Truthy(EnvGet("GEMINI_API_KEY")) \/ ~Truthy(EnvGet("GEMINI_MESSAGE"))

(* __main__, the values come from the environment or from two arguments *)
Main_Resolve ==
    /\ pc = "main"
    /\ ~(NeedArgs /\ Len(argv) # 3)
    /\ api_key' = IF NeedArgs THEN argv[2] ELSE EnvGet("GEMINI_API_KEY")
    /\ message' = IF NeedArgs THEN argv[3] ELSE EnvGet("GEMINI_MESSAGE")
    /\ pc' = "call"
    /\ UNCHANGED <<environ, argv, exchange, requests, response, response_data,
                   base64_images, image_data, exc, fs, stdout, stderr, exit_code>>

(* __main__, the usage message and sys.exit(1) *)
Main_Usage ==
    /\ pc = "main"
    /\ NeedArgs /\ Len(argv) # 3
    /\ stderr' = stderr \o UsageLines
    /\ exit_code' = 1
    /\ pc' = "exited"
    /\ UNCHANGED <<environ, argv, api_key, message, exchange, requests, response,
                   response_data, base64_images, image_data, exc, fs, stdout>>

(* response = call_gemini_api(api_key, message) *)
Main_Call ==
    /\ pc = "call"
    /\ \E x \in IF ValidURL(api_key.v) THEN TextExchanges
                ELSE {FailedExchange("InvalidURL")} :
          /\ exchange' = x
          /\ response' = call_gemini_api(api_key, message, x)
    /\ requests' = requests + 1
    /\ pc' = IF response'.exc # "" THEN "raised" ELSE "print"
    /\ UNCHANGED <<environ, argv, api_key, message, response_data, base64_images,
                   image_data, exc, fs, stdout, stderr, exit_code>>

(* print(response) *)
Main_Print ==
    /\ pc = "print"
    /\ stdout' = Append(stdout, Line("", response.val))
    /\ exit_code' = 0
    /\ pc' = "exited"
    /\ UNCHANGED <<environ, argv, api_key, message, exchange, requests, response,
                   response_data, base64_images, image_data, exc, fs, stderr>>

(* An exception left call_gemini_api: the interpreter prints the traceback *)
Main_Traceback ==
    /\ pc = "raised"
    /\ stderr' = Append(stderr, "Traceback (most recent call last):")
    /\ exit_code' = 1
    /\ pc' = "exited"
    /\ UNCHANGED <<environ, argv, api_key, message, exchange, requests, response,
                   response_data, base64_images, image_data, exc, fs, stdout>>

BridgeNext == Main_Resolve \/ Main_Usage \/ Main_Call \/ Main_Print \/ Main_Traceback

BridgeSpec == BridgeInit /\ [][BridgeNext]_vars

---------------------------------------------------------------------------
(* pixelart.py *)

K_images == <<"i", "m", "a", "g", "e", "s">>

K_image_b64 == <<"i", "m", "a", "g", "e", "_", "b", "6", "4">>

K_image == <<"i", "m", "a", "g", "e">>

K_base64 == <<"b", "a", "s", "e", "6", "4">>

K_data == <<"d", "a", "t", "a">>

K_base64_images ==
    <<"b", "a", "s", "e", "6", "4", "_", "i", "m", "a", "g", "e", "s">>

K_url == <<"u", "r", "l">>

(* for key in ["image_b64", "image", "base64", "data", "base64_images"] *)
CandidateKeys == <<K_image_b64, K_image, K_base64, K_data, K_base64_images>>

(* The loop over the object's own keys in place of the fixed list: the value
   at the first key of img that is a candidate key *)
SearchKeys_DictOrder(img, i) ==
    LET hits == {j \in 1..Len(img) :
                   \E c \in 1..Len(CandidateKeys) : img[j][1] = CandidateKeys[c]}
    IN  IF hits = {} THEN None
        ELSE img[CHOOSE j \in hits : \A h \in hits : j <= h][2]

(* The for loop from the i-th candidate key on: the value at the first key
   that img has, None when it has none of them *)
RECURSIVE SearchKeys(_, _)
SearchKeys(img, i) ==
    IF i > Len(CandidateKeys) THEN None
    ELSE IF HasKey(img, CandidateKeys[i]) THEN Lookup(img, CandidateKeys[i])
    ELSE SearchKeys(img, i + 1)

(* `base64_images = [img_obj]  # raw string` *)
RawString(img_obj) == List(<<img_obj>>)

(* The universal base64 extractor: base64_images, or what evaluating it raised *)
ExtractImage(rd) ==
    IF rd.t = "obj" /\ HasKey(rd.v, K_images)
    THEN LET img_obj == PyGetFirst(Lookup(rd.v, K_images)) IN
         IF img_obj.exc # "" THEN img_obj
         ELSE IF img_obj.val.t = "obj" THEN Ok(SearchKeys(img_obj.val.v, 1))
         ELSE IF img_obj.val.t = "str" THEN Ok(RawString(img_obj.val))
         ELSE Ok(None)
    ELSE IF rd.t = "arr" /\ Len(rd.v) > 0 THEN Ok(rd)
    ELSE IF rd.t = "str" THEN Ok(rd)
    ELSE Ok(None)

B64Chars ==
    <<"A", "B", "C", "D", "E", "F", "G", "H", "I", "J", "K", "L", "M",
      "N", "O", "P", "Q", "R", "S", "T", "U", "V", "W", "X", "Y", "Z",
      "a", "b", "c", "d", "e", "f", "g", "h", "i", "j", "k", "l", "m",
      "n", "o", "p", "q", "r", "s", "t", "u", "v", "w", "x", "y", "z",
      "0", "1", "2", "3", "4", "5", "6", "7", "8", "9", "+", "/">>

IsB64Char(c) == \E d \in 1..64 : B64Chars[d] = c

B64Val(c) == (CHOOSE d \in 1..64 : B64Chars[d] = c) - 1

IsAscii(c) == c # "U+E9"

(* binascii.a2b_base64(s), not strict: characters outside the alphabet are
   skipped, a completed pad sequence ends the input, and what is left of a
   quad at the end is an error *)
RECURSIVE A2B(_, _, _, _, _, _)
A2B(s, i, quad_pos, leftchar, pads, out) ==
    IF i > Len(s)
    THEN IF quad_pos # 0 THEN Raise("binascii.Error") ELSE Ok(Bytes(out))
    ELSE IF s[i] = "="
    THEN IF quad_pos >= 2 /\ quad_pos + pads + 1 >= 4 THEN Ok(Bytes(out))
         ELSE A2B(s, i + 1, quad_pos, leftchar,
                  IF quad_pos >= 2 THEN pads + 1 ELSE pads, out)
    ELSE IF ~IsB64Char(s[i]) THEN A2B(s, i + 1, quad_pos, leftchar, pads, out)
    ELSE LET this_ch == B64Val(s[i]) IN
         IF quad_pos = 0 THEN A2B(s, i + 1, 1, this_ch, 0, out)
         ELSE IF quad_pos = 1
         THEN A2B(s, i + 1, 2, this_ch % 16, 0,
                  Append(out, (leftchar * 4 + this_ch \div 16) % 256))
         ELSE IF quad_pos = 2
         THEN A2B(s, i + 1, 3, this_ch % 4, 0,
                  Append(out, (leftchar * 16 + this_ch \div 4) % 256))
         ELSE A2B(s, i + 1, 0, 0, 0, Append(out, (leftchar * 64 + this_ch) % 256))

(* base64.b64decode(x) *)
b64decode(x) ==
    IF x.t # "str" THEN Raise("TypeError")
    ELSE IF \E i \in 1..Len(x.v) : ~IsAscii(x.v[i]) THEN Raise("ValueError")
    ELSE A2B(x.v, 1, 0, 0, 0, <<>>)

MaxPayload == 4

PayloadChars == {"Q", "=", "!"}

PayloadStrings == StringsUpTo(PayloadChars, MaxPayload)

MaxKeys == 2

OtherKeys == {K_url}

(* The payload the model puts under key k: one per key, so that the key an
   extracted payload came from can be told *)
KeyPayload(k) ==
    CASE k = K_image_b64     -> <<"Q", "Q", "Q", "Q">>
      [] k = K_image         -> <<"Q", "Q", "Q", "U">>
      [] k = K_base64        -> <<"Q", "Q", "U", "Q">>
      [] k = K_data          -> <<"Q", "U", "Q", "Q">>
      [] k = K_base64_images -> <<"U", "Q", "Q", "Q">>
      [] OTHER               -> <<"U", "U", "U", "U">>

ImageObjectKeys == {CandidateKeys[i] : i \in 1..Len(CandidateKeys)} \cup OtherKeys

(* The dicts of at most n members, keys distinct, each value empty or its
   key's payload *)
RECURSIVE ImageObjects(_)
ImageObjects(n) ==
    IF n = 0 THEN {<<>>}
    ELSE LET smaller == ImageObjects(n - 1) IN
         smaller \cup UNION { UNION { { Append(m, <<k, Str(p)>>) :
                                            p \in {<<>>, KeyPayload(k)} } :
                                        k \in {kk \in ImageObjectKeys : ~HasKey(m, kk)} } :
                               m \in smaller }

WithImages(v) == Dict(<< <<K_images, v>> >>)

(* The parsed responses of the image flow *)
ImageResponses ==
    { WithImages(List(<< Dict(<< <<K_image_b64, Str(b)>> >>) >>)) : b \in PayloadStrings }
    \cup { WithImages(List(<<Str(b)>>)) : b \in PayloadStrings }
    \cup { List(<<Str(b)>>) : b \in PayloadStrings }
    \cup { Str(b) : b \in PayloadStrings }
    \cup { WithImages(List(<<Dict(m)>>)) : m \in ImageObjects(MaxKeys) }
    \cup { WithImages(List(<<>>)), WithImages(List(<<Num(1)>>)),
           WithImages(List(<<None>>)),
           WithImages(List(<< List(<<Str(<<"Q", "Q", "Q", "Q">>)>>) >>)),
           WithImages(List(<< Dict(<< <<K_image_b64, Num(5)>> >>) >>)),
           WithImages(List(<< Dict(<< <<K_image_b64, Str(<<"Q", "Q", "Q", "U+E9">>)>> >>) >>)),
           WithImages(List(<< Str(<<"Q", "Q", "=", "=">>), Str(<<"!">>) >>)),
           WithImages(Num(1)), WithImages(None), WithImages(Dict(<<>>)),
           WithImages(Str(<<"Q", "Q", "Q", "Q">>)),
           Dict(<<>>), Dict(<< <<K_url, Str(<<"Q", "Q", "Q", "Q">>)>> >>),
           List(<<>>), List(<< Str(<<"Q", "Q", "=", "=">>), Str(<<"Q", "Q", "Q", "Q">>) >>),
           Num(3), Num(0), None, Bool(TRUE) }

ImageExchanges ==
    { OkExchange(TextBody(Dumps(v))) : v \in ImageResponses }
    \cup { OkExchange(TextBody(s)) : s \in NonJsonTexts }
    \cup { OkExchange(UndecodableBody), OkExchange(UnreadableBody) }
    \cup { HTTPErrorExchange(c, b) :
             c \in ErrorCodes,
             b \in {TextBody(<<"n", "o">>), UndecodableBody, UnreadableBody} }
    \cup { FailedExchange("URLError"), FailedExchange("RemoteDisconnected") }

NoImageFound == "No base64 image found in API response!"

DecodeFailed == "Base64 decode failed: "

output_file == "./assets/output1.png"

PixelInit ==
    /\ pc = "setup"
    /\ environ \in UNION {[D -> {<<"K">>}] : D \in SUBSET {"API_KEY"}}
    /\ argv = <<Str(<<"p", "y">>)>>
    /\ api_key = None
    /\ message = None
    /\ exchange = NoExchange
    /\ requests = 0
    /\ response = Ok(None)
    /\ response_data = None
    /\ base64_images = None
    /\ image_data = None
    /\ exc = ""
    /\ fs \in { [dir |-> FALSE, file |-> None], [dir |-> TRUE, file |-> None],
                [dir |-> TRUE, file |-> Bytes(<<0>>)] }
    /\ stdout = <<>>
    /\ stderr = <<>>
    /\ exit_code = -1

(* load_dotenv() and API_KEY = os.getenv("API_KEY"); the request is built *)
Pixel_Setup ==
    /\ pc = "setup"
    /\ api_key' = EnvGet("API_KEY")
    /\ pc' = "request"
    /\ UNCHANGED <<environ, argv, message, exchange, requests, response,
                   response_data, base64_images, image_data, exc, fs, stdout,
                   stderr, exit_code>>

(* What the try block's first statements do with exchange x: the parsed
   response, or the exception raised *)
ReadResponse(x) ==
    IF x.kind # "ok" THEN Raise(x.kind)
    ELSE LET resp_text == ReadText(x.body) IN
         IF resp_text.exc # "" THEN resp_text ELSE Loads(resp_text.val.v)

(* urlopen(req), read, decode, json.loads and the debug print.  With no
   API_KEY the header value is None and http.client raises TypeError *)
Pixel_Request ==
    /\ pc = "request"
    /\ \E x \in IF api_key = None THEN {FailedExchange("TypeError")}
                ELSE ImageExchanges :
          /\ exchange' = x
          /\ IF ReadResponse(x).exc # ""
             THEN /\ exc' = ReadResponse(x).exc
                  /\ pc' = "except"
                  /\ UNCHANGED <<response_data, stdout>>
             ELSE /\ response_data' = ReadResponse(x).val
                  /\ stdout' = Append(stdout, Line("Response Data:", response_data'))
                  /\ pc' = "extract"
                  /\ exc' = exc
    /\ requests' = requests + 1
    /\ UNCHANGED <<environ, argv, api_key, message, response, base64_images,
                   image_data, fs, stderr, exit_code>>

(* The extractor and its failure check *)
Pixel_Extract ==
    /\ pc = "extract"
    /\ LET found == ExtractImage(response_data) IN
       IF found.exc # ""
       THEN /\ exc' = found.exc
            /\ pc' = "except"
            /\ UNCHANGED base64_images
       ELSE /\ base64_images' = found.val
            /\ IF ~Truthy(found.val)
               THEN exc' = NoImageFound /\ pc' = "except"
               ELSE exc' = exc /\ pc' = "decode"
    /\ UNCHANGED <<environ, argv, api_key, message, exchange, requests, response,
                   response_data, image_data, fs, stdout, stderr, exit_code>>

(* "Decode base64": the inner try *)
Pixel_Decode ==
    /\ pc = "decode"
    /\ LET decoded == b64decode(base64_images) IN
       IF decoded.exc # ""
       THEN /\ exc' = DecodeFailed \o decoded.exc
            /\ pc' = "except"
            /\ UNCHANGED <<image_data, stdout>>
       ELSE /\ image_data' = decoded.val
            /\ stdout' = Append(stdout, Line("Base64 decode: OK", None))
            /\ pc' = "save"
            /\ exc' = exc
    /\ UNCHANGED <<environ, argv, api_key, message, exchange, requests, response,
                   response_data, base64_images, fs, stderr, exit_code>>

(* os.makedirs(assets_folder, exist_ok=True), the write and the last print *)
Pixel_Save ==
    /\ pc = "save"
    /\ fs' = [dir |-> TRUE, file |-> image_data]
    /\ stdout' = Append(stdout, Line("Image saved to " \o output_file, None))
    /\ exit_code' = 0
    /\ pc' = "exited"
    /\ UNCHANGED <<environ, argv, api_key, message, exchange, requests, response,
                   response_data, base64_images, image_data, exc, stderr>>

(* The except HTTPError clause without the inner try: a read or decode that
   fails leaves the handler *)
HTTPErrorHandler_Unguarded(x) ==
    [ lines  |-> <<Line("HTTPError:", Num(x.code))>>
                 \o (IF ReadText(x.body).exc # "" THEN <<>>
                     ELSE <<Line("", ReadText(x.body).val)>>),
      raised |-> ReadText(x.body).exc # "" ]

(* The except HTTPError clause: the lines it prints, and whether an exception
   left it.  try: print(e.read().decode("utf-8")) except: pass *)
HTTPErrorHandler(x) ==
    [ lines  |-> <<Line("HTTPError:", Num(x.code))>>
                 \o (IF ReadText(x.body).exc # "" THEN <<>>
                     ELSE <<Line("", ReadText(x.body).val)>>),
      raised |-> FALSE ]

(* except HTTPError as e; an exception that leaves a handler ends the script
   with the interpreter's traceback and status 1 *)
Pixel_HTTPError ==
    /\ pc = "except"
    /\ exc = "HTTPError"
    /\ stdout' = stdout \o HTTPErrorHandler(exchange).lines
    /\ IF HTTPErrorHandler(exchange).raised
       THEN /\ stderr' = Append(stderr, "Traceback (most recent call last):")
            /\ exit_code' = 1
       ELSE /\ stderr' = stderr
            /\ exit_code' = 0
    /\ pc' = "exited"
    /\ UNCHANGED <<environ, argv, api_key, message, exchange, requests, response,
                   response_data, base64_images, image_data, exc, fs>>

(* except URLError as e *)
Pixel_URLError ==
    /\ pc = "except"
    /\ exc = "URLError"
    /\ stdout' = Append(stdout, Line("URLError:", None))
    /\ exit_code' = 0
    /\ pc' = "exited"
    /\ UNCHANGED <<environ, argv, api_key, message, exchange, requests, response,
                   response_data, base64_images, image_data, exc, fs, stderr>>

(* except Exception as e *)
Pixel_Exception ==
    /\ pc = "except"
    /\ exc \notin {"HTTPError", "URLError"}
    /\ stdout' = Append(stdout, Line("Unexpected error:", Str(ExcText(exc))))
    /\ exit_code' = 0
    /\ pc' = "exited"
    /\ UNCHANGED <<environ, argv, api_key, message, exchange, requests, response,
                   response_data, base64_images, image_data, exc, fs, stderr>>

PixelNext ==
    \/ Pixel_Setup
    \/ Pixel_Request
    \/ Pixel_Extract
    \/ Pixel_Decode
    \/ Pixel_Save
    \/ Pixel_HTTPError
    \/ Pixel_URLError
    \/ Pixel_Exception

PixelSpec == PixelInit /\ [][PixelNext]_vars

(* The script is one sequential process: a step that can be taken is taken *)
PixelLiveSpec == PixelSpec /\ WF_vars(PixelNext)

---------------------------------------------------------------------------
(* The text flow's properties *)

(* call_gemini_api has been called and has returned or raised *)
Called == pc \in {"print", "raised", "exited"} /\ requests = 1

(* The exchange succeeded with a body that is a JSON document *)
SuccessJson ==
    /\ exchange.kind = "ok"
    /\ exchange.body.st = "text"
    /\ Loads(exchange.body.text).exc = ""

(* The parsed response of the exchange *)
Rd == Loads(exchange.body.text).val

IsObjWith(x, k) == x.t = "obj" /\ HasKey(x.v, k)

NonEmptyArr(x) == x.t = "arr" /\ Len(x.v) > 0

HasCandidates(rd) == IsObjWith(rd, K_candidates)

CandidatesOf(rd) == Lookup(rd.v, K_candidates)

HasFirstCandidate(rd) == HasCandidates(rd) /\ NonEmptyArr(CandidatesOf(rd))

FirstCandidate(rd) == CandidatesOf(rd).v[1]

HasContent(rd) == HasFirstCandidate(rd) /\ IsObjWith(FirstCandidate(rd), K_content)

ContentOf(rd) == Lookup(FirstCandidate(rd).v, K_content)

HasParts(rd) == HasContent(rd) /\ IsObjWith(ContentOf(rd), K_parts)

PartsOf(rd) == Lookup(ContentOf(rd).v, K_parts)

HasFirstPart(rd) == HasParts(rd) /\ NonEmptyArr(PartsOf(rd))

FirstPart(rd) == PartsOf(rd).v[1]

HasText(rd) == HasFirstPart(rd) /\ IsObjWith(FirstPart(rd), K_text)

TextOf(rd) == Lookup(FirstPart(rd).v, K_text)

(* The returned value is a string that parses back to the response *)
ReturnsReserialized ==
    /\ response.exc = ""
    /\ response.val.t = "str"
    /\ Loads(response.val.v) = Ok(Rd)

(* C1: call_gemini_api never raises: whatever the HTTP exchange did, the call
   returns and no exception reaches the caller. *)
C1_NeverRaises == Called => response.exc = ""

(* C2, as claimed: a response that lacks any part of
   candidates[0].content.parts[0].text, whatever its top-level type, comes
   back as the re-serialization of the whole parsed response. *)
C2_Original == (Called /\ SuccessJson /\ ~HasText(Rd)) => ReturnsReserialized

(* The structure ends early at a container of the expected type: no
   candidates key, an empty candidates array, a first candidate object without
   content, a content object without parts, or an empty parts array *)
CutShort(rd) ==
    \/ rd.t = "obj" /\ ~HasKey(rd.v, K_candidates)
    \/ HasCandidates(rd) /\ CandidatesOf(rd) = List(<<>>)
    \/ HasFirstCandidate(rd) /\ FirstCandidate(rd).t = "obj"
         /\ ~HasKey(FirstCandidate(rd).v, K_content)
    \/ HasContent(rd) /\ ContentOf(rd).t = "obj" /\ ~HasKey(ContentOf(rd).v, K_parts)
    \/ HasParts(rd) /\ PartsOf(rd) = List(<<>>)

(* C2, amended: a response object whose candidate structure ends early at a
   container of the expected type comes back re-serialized (the returned
   string parses to the response); a first part that is an object without
   text gives the empty string, and a top-level null, boolean or number gives
   the "Error: " string of a TypeError. *)
C2_FallbackReserializes ==
    (Called /\ SuccessJson) =>
        /\ CutShort(Rd) => ReturnsReserialized
        /\ (HasFirstPart(Rd) /\ FirstPart(Rd).t = "obj" /\ ~HasText(Rd))
              => response = Ok(Str(<<>>))
        /\ Rd.t \in {"null", "bool", "num"} => response = ErrorResult("TypeError")

(* A response with an empty parts array was returned re-serialized and printed *)
C2_Witness ==
    /\ pc = "exited"
    /\ SuccessJson
    /\ HasParts(Rd) /\ PartsOf(Rd) = List(<<>>)
    /\ stdout = <<Line("", Str(Dumps(Rd)))>>
    /\ response.val.v # <<>>

(* C3, as claimed: whenever the response contains
   candidates[0].content.parts[0], the call returns that part's text field
   unchanged, and the empty string when the part has no text field. *)
C3_Original ==
    (Called /\ SuccessJson /\ HasFirstPart(Rd)) =>
        response = Ok(IF HasText(Rd) THEN TextOf(Rd) ELSE Str(<<>>))

(* C3, amended: whenever the response contains candidates[0].content.parts[0]
   and that part is a JSON object, the call returns the part's text field
   unchanged, and the empty string when the object has no text field; a first
   part that is no object gives the "Error: " string of an AttributeError. *)
C3_ReturnsText ==
    (Called /\ SuccessJson /\ HasFirstPart(Rd)) =>
        IF FirstPart(Rd).t = "obj"
        THEN response = Ok(IF HasText(Rd) THEN TextOf(Rd) ELSE Str(<<>>))
        ELSE response = ErrorResult("AttributeError")

(* A text with a leading blank and a quote was returned and printed as it is *)
C3_Witness ==
    /\ pc = "exited"
    /\ SuccessJson
    /\ HasText(Rd)
    /\ TextOf(Rd) = Str(<<" ", "\"">>)
    /\ stdout = <<Line("", Str(<<" ", "\"">>))>>

BothSet == EnvNames \subseteq DOMAIN environ

BothNonEmpty ==
    BothSet /\ environ["GEMINI_API_KEY"] # <<>> /\ environ["GEMINI_MESSAGE"] # <<>>

(* The process exited with the usage text and did nothing else *)
UsageExit ==
    /\ pc = "exited"
    /\ exit_code = 1
    /\ stderr = UsageLines
    /\ stdout = <<>>
    /\ requests = 0

FromEnv ==
    /\ api_key = Str(environ["GEMINI_API_KEY"])
    /\ message = Str(environ["GEMINI_MESSAGE"])

FromArgs == api_key = argv[2] /\ message = argv[3]

(* C8, as claimed: with both environment variables set the key and the message
   are the environment's, whatever the arguments; otherwise two positional
   arguments are used; otherwise the process exits with status 1, the usage
   text on standard error, nothing on standard output and no request. *)
C8_Original ==
    pc # "main" =>
        IF BothSet THEN FromEnv
        ELSE IF Len(argv) = 3 THEN FromArgs
        ELSE UsageExit

(* C8, amended: with both environment variables set and non-empty the key and
   the message are the environment's, whatever the arguments; otherwise two
   positional arguments are used; otherwise the process exits with status 1,
   the usage text on standard error, nothing on standard output and no
   request. *)
C8_InputResolution ==
    pc # "main" =>
        IF BothNonEmpty THEN FromEnv
        ELSE IF Len(argv) = 3 THEN FromArgs
        ELSE UsageExit

(* Both variables are set, two other arguments are given, the environment won *)
C8_Witness ==
    /\ pc = "call"
    /\ BothNonEmpty
    /\ Len(argv) = 3
    /\ argv[2] # Str(environ["GEMINI_API_KEY"])
    /\ FromEnv

---------------------------------------------------------------------------
(* The image flow's properties *)

(* The exchange succeeded and its body parsed: response_data holds it *)
ParsedOk == exchange.kind = "ok" /\ ReadResponse(exchange).exc = ""

(* The extractor has run on the parsed response *)
Extracted == ParsedOk /\ pc \in {"decode", "save", "except", "exited"}

HasImages(rd) == IsObjWith(rd, K_images)

ImagesOf(rd) == Lookup(rd.v, K_images)

HasFirstImage(rd) == HasImages(rd) /\ NonEmptyArr(ImagesOf(rd))

FirstImage(rd) == ImagesOf(rd).v[1]

(* {"images": [{"image_b64": B, ...}]} with B a string *)
ShapeObject(rd) ==
    /\ HasFirstImage(rd)
    /\ IsObjWith(FirstImage(rd), K_image_b64)
    /\ Lookup(FirstImage(rd).v, K_image_b64).t = "str"

(* {"images": [B, ...]} with B a string *)
ShapeString(rd) == HasFirstImage(rd) /\ FirstImage(rd).t = "str"

(* [B] with B a string *)
ShapeArray(rd) == rd.t = "arr" /\ Len(rd.v) = 1 /\ rd.v[1].t = "str"

(* B alone *)
ShapeBare(rd) == rd.t = "str"

Recognised(rd) == ShapeObject(rd) \/ ShapeString(rd) \/ ShapeArray(rd) \/ ShapeBare(rd)

(* The base64 string B the response carries *)
PayloadOf(rd) ==
    IF ShapeObject(rd) THEN Lookup(FirstImage(rd).v, K_image_b64)
    ELSE IF ShapeString(rd) THEN FirstImage(rd)
    ELSE IF ShapeArray(rd) THEN rd.v[1]
    ELSE rd

(* s is base64 text: quads of alphabet characters, the last one padded with at
   most two "=" *)
IsBase64(s) ==
    /\ Len(s) % 4 = 0
    /\ \A i \in 1..Len(s) :
          \/ IsB64Char(s[i])
          \/ s[i] = "=" /\ i >= Len(s) - 1 /\ (i = Len(s) \/ s[i + 1] = "=")

(* The bytes base64 text s stands for, quad by quad *)
RECURSIVE DecodedBytes(_)
DecodedBytes(s) ==
    IF s = <<>> THEN <<>>
    ELSE LET a == B64Val(s[1])
             b == B64Val(s[2])
         IN  <<a * 4 + b \div 16>>
             \o (IF s[3] = "=" THEN <<>>
                 ELSE <<(b % 16) * 16 + B64Val(s[3]) \div 4>>
                      \o (IF s[4] = "=" THEN <<>>
                          ELSE <<(B64Val(s[3]) % 4) * 64 + B64Val(s[4])>>))
             \o DecodedBytes(SubSeq(s, 5, Len(s)))

LastLine == stdout[Len(stdout)]

(* C4: the extracted payload per recognised shape: the string B for
   {"images": [{"image_b64": B}]}, the string B for {"images": [B]}, the array
   [B] for the bare array [B], the string B for the bare string B. *)
C4_ExtractorShapes ==
    Extracted =>
        /\ ShapeObject(response_data) => base64_images = PayloadOf(response_data)
        /\ ShapeString(response_data) => base64_images = PayloadOf(response_data)
        /\ ShapeArray(response_data) => base64_images = response_data
        /\ ShapeBare(response_data) => base64_images = response_data

(* An object with an empty images array, or a response of no recognised
   shape: an object without images, an empty array, a number, null, a first
   image that is neither object nor string, a first image object with none of
   the candidate keys *)
Unrecognised(rd) ==
    \/ HasImages(rd) /\ ImagesOf(rd) = List(<<>>)
    \/ rd.t = "obj" /\ ~HasKey(rd.v, K_images)
    \/ rd = List(<<>>)
    \/ rd.t \in {"num", "null"}
    \/ HasFirstImage(rd) /\ FirstImage(rd).t \notin {"obj", "str"}
    \/ HasFirstImage(rd) /\ FirstImage(rd).t = "obj"
         /\ \A i \in 1..Len(CandidateKeys) : ~HasKey(FirstImage(rd).v, CandidateKeys[i])

(* C5: a response with an empty images array or of no recognised shape ends
   the run on the "No base64 image found" failure and on no other error, and
   the output directory and file are left as they were. *)
C5_NoImageFound ==
    /\ [](ParsedOk /\ Unrecognised(response_data) /\ pc = "exited"
            => LastLine = Line("Unexpected error:", Str(<<NoImageFound>>)))
    /\ [][ParsedOk /\ Unrecognised(response_data) => fs' = fs]_vars

(* C6: a response that carries valid base64 in a recognised shape ends with
   ./assets/output1.png holding exactly the decoded bytes, the directory
   there, and the success message printed. *)
C6_ValidPayloadSaved ==
    (/\ ParsedOk
     /\ pc = "exited"
     /\ Recognised(response_data)
     /\ PayloadOf(response_data).v # <<>>
     /\ IsBase64(PayloadOf(response_data).v))
    => /\ fs = [dir |-> TRUE, file |-> Bytes(DecodedBytes(PayloadOf(response_data).v))]
       /\ LastLine = Line("Image saved to ./assets/output1.png", None)

DecodeFailures ==
    { Line("Unexpected error:", Str(<<DecodeFailed \o e>>)) :
        e \in {"binascii.Error", "TypeError", "ValueError"} }

(* C7: a payload that is not valid base64, in any recognised shape, ends the
   run on the "Base64 decode failed" failure: the decode does not succeed on
   it and the output file is left as it was. *)
C7_InvalidPayloadRejected ==
    /\ [](/\ ParsedOk
          /\ pc = "exited"
          /\ Recognised(response_data)
          /\ ~IsBase64(PayloadOf(response_data).v)
          => LastLine \in DecodeFailures /\ image_data = None)
    /\ [][(/\ ParsedOk
           /\ Recognised(response_data)
           /\ ~IsBase64(PayloadOf(response_data).v)) => fs' = fs]_vars

Diagnostics == {"HTTPError:", "URLError:", "Unexpected error:"}

Outcomes == Diagnostics \cup {"Image saved to ./assets/output1.png"}

(* The places in standard output of a success message or a diagnostic *)
OutcomeLines == {i \in 1..Len(stdout) : stdout[i].text \in Outcomes}

(* C9: every run of the image flow ends, after exactly one POST attempt, with
   either the success message or one diagnostic printed, and no exception
   leaves the script: the status is 0 and nothing is on standard error. *)
C9_AlwaysEndsWithMessage ==
    /\ <>(pc = "exited")
    /\ [](requests <= 1)
    /\ [](pc = "exited" =>
            /\ requests = 1
            /\ exit_code = 0
            /\ stderr = <<>>
            /\ Cardinality(OutcomeLines) = 1
            /\ \A i \in OutcomeLines :
                  /\ (stdout[i].text \in Diagnostics) = (exc # "")
                  /\ Len(stdout) - i <= (IF exc = "HTTPError" THEN 1 ELSE 0))

(* An HTTP error whose body could not be read ended with only the HTTPError line *)
C9_Witness ==
    /\ pc = "exited"
    /\ exchange.kind = "HTTPError"
    /\ exchange.body.st = "unreadable"
    /\ stdout = <<Line("HTTPError:", Num(exchange.code))>>

(* The places, in the fixed order, of the candidate keys that img has *)
Present(img) == {i \in 1..Len(CandidateKeys) : HasKey(img, CandidateKeys[i])}

Min(S) == CHOOSE i \in S : \A j \in S : i <= j

(* C10: when the first element of images is an object, the extracted payload
   is the value of the earliest key of image_b64, image, base64, data,
   base64_images that the object has, whatever the object's own key order;
   an empty value at that key is taken too, and the run then ends on the
   "No base64 image found" failure without a later key being used. *)
C10_KeyPriority ==
    (Extracted /\ HasFirstImage(response_data) /\ FirstImage(response_data).t = "obj") =>
        LET img == FirstImage(response_data).v IN
        IF Present(img) = {} THEN base64_images = None
        ELSE /\ base64_images = Lookup(img, CandidateKeys[Min(Present(img))])
             /\ ~Truthy(base64_images) => exc = NoImageFound /\ image_data = None

(* The object lists data before image; image, empty, was taken and the run failed *)
C10_Witness ==
    /\ pc = "exited"
    /\ ParsedOk
    /\ HasFirstImage(response_data)
    /\ FirstImage(response_data) = Dict(<< <<K_data, Str(KeyPayload(K_data))>>,
                                           <<K_image, Str(<<>>)>> >>)
    /\ base64_images = Str(<<>>)
    /\ exc = NoImageFound

=============================================================================
